---- MODULE Spec2Model ----
(***************************************************************************)
(* AdsorptionMaker.make (src/src/atomate2/vasp/flows/adsorption.py): the   *)
(* assembly of the adsorption-energy Flow, and the execution of that Flow  *)
(* by a job engine that respects the producer/consumer edges.              *)
(***************************************************************************)
EXTENDS Integers, Sequences, FiniteSets, TLC

VARIABLES
    self,       \* the AdsorptionMaker: which of its five makers are not None
    pc,         \* "constructed", "returned" (make returned a Flow), "raised"
    call,       \* the arguments of the call of make
    jobs,       \* make's local list `jobs`, as it stands when make returns or raises
    flow,       \* the Flow make returned
    files,      \* names of the files in the working directory
    running,    \* engine: uuids of the jobs started and not yet completed
    done,       \* engine: uuids of the jobs completed
    spawned,    \* engine: the jobs created while the flow runs (by run_adslabs_job)
    K           \* engine: number of adsorbate-slab candidates generated, -1 before that

vars == <<self, pc, call, jobs, flow, files, running, done, spawned, K>>

----------------------------------------------------------------------------
(* Bounds of the model *)

\* largest number of adsorbate-slab candidates generate_adslabs yields
MaxK == 2

(* Program constants *)

\* molecule.get_boxed_structure(10, 10, 10)
BoxSize == 10

----------------------------------------------------------------------------
(* Values handed between jobs.  Every value is a record of one shape:      *)
(*   kind  "None" | "value" | "number" | "tuple" | "boxed" | "maker" | "ref"*)
(*   v     the name of an opaque object (a structure, a directory, a maker) *)
(*   n     the numbers of a number, a tuple or a box                        *)
(*   uuid, attr   for an OutputReference: the producing job and the field   *)

Val(kind, v, n, uuid, attr) ==
    [kind |-> kind, v |-> v, n |-> n, uuid |-> uuid, attr |-> attr]

None == Val("None", "", <<>>, 0, "")

Obj(name) == Val("value", name, <<>>, 0, "")

Num(x) == Val("number", "", <<x>>, 0, "")

Tup(t) == Val("tuple", "", t, 0, "")

\* self.<field>, passed as an argument: the maker object, or None
MakerArg(s, field) ==
    IF s[field] THEN Val("maker", field, <<>>, 0, "") ELSE None

\* job.output.<attr>: a reference resolved when the job has run
OutputReference(uuid, attr) == Val("ref", "", <<>>, uuid, attr)

\* Molecule.get_boxed_structure(a, b, c): the molecule in an a x b x c cell
get_boxed_structure(molecule, a, b, c) ==
    Val("boxed", molecule.v, <<a, b, c>>, 0, "")

\* a Job: its uuid, its name, the maker or function that made it, its arguments
Job(uuid, name, fn, args) ==
    [uuid |-> uuid, name |-> name, fn |-> fn, args |-> args]

\* maker.make(structure, prev_dir=...) followed by job.append_name(name)
MakerJob(uuid, name, maker, structure, prev_dir) ==
    Job(uuid, name, maker, [structure |-> structure, prev_dir |-> prev_dir])

----------------------------------------------------------------------------
(* Inputs *)

Makers == {"mol_relax_maker", "mol_static_maker", "bulk_relax_maker",
           "slab_relax_maker", "slab_static_maker"}

Molecules == {Obj("CO")}

Structures == {Obj("Au_bulk")}

PrevDirsMol == {None, Obj("dir_mol")}

PrevDirsBulk == {None, Obj("dir_bulk")}

\* (min_vacuum, min_slab_size, min_lw, surface_idx); the first is make's defaults
Geometries ==
    { [min_vacuum |-> Num(20), min_slab_size |-> Num(10), min_lw |-> Num(10),
       surface_idx |-> Tup(<<0, 0, 1>>)],
      [min_vacuum |-> Num(15), min_slab_size |-> Num(8), min_lw |-> Num(12),
       surface_idx |-> Tup(<<1, 1, 1>>)] }

----------------------------------------------------------------------------
(* The job functions of atomate2.vasp.jobs.adsorption, as make calls them:   *)
(* calling a job function creates a Job holding the arguments of the call.   *)

generate_slab(uuid, bulk_structure, min_slab_size, surface_idx, min_vacuum_size, min_lw) ==
    Job(uuid, "generate_slab", "generate_slab",
        [bulk_structure |-> bulk_structure, min_slab_size |-> min_slab_size,
         surface_idx |-> surface_idx, min_vacuum_size |-> min_vacuum_size,
         min_lw |-> min_lw])

generate_adslabs(uuid, bulk_structure, molecule_structure, min_slab_size, surface_idx, min_vacuum_size, min_lw) ==
    Job(uuid, "generate_adslabs", "generate_adslabs",
        [bulk_structure |-> bulk_structure,
         molecule_structure |-> molecule_structure,
         min_slab_size |-> min_slab_size, surface_idx |-> surface_idx,
         min_vacuum_size |-> min_vacuum_size, min_lw |-> min_lw])

run_adslabs_job(uuid, adslab_structures, relax_maker, static_maker) ==
    Job(uuid, "run_adslabs_job", "run_adslabs_job",
        [adslab_structures |-> adslab_structures, relax_maker |-> relax_maker,
         static_maker |-> static_maker])

adsorption_calculations(uuid, adslab_structures, adslabs_data, molecule_dft_energy, slab_dft_energy) ==
    Job(uuid, "adsorption_calculations", "adsorption_calculations",
        [adslab_structures |-> adslab_structures, adslabs_data |-> adslabs_data,
         molecule_dft_energy |-> molecule_dft_energy,
         slab_dft_energy |-> slab_dft_energy])

----------------------------------------------------------------------------
(* make, statement by statement.  A frame holds make's local variables;     *)
(* `raised` is 0, or the line of make at which an exception left it.        *)

\* the uuid of the next job created: jobs are numbered in creation order
NextUuid(f) == Len(f.jobs) + 1

\* joblog[key]["output"] = value.as_dict()
Log(f, key, value) == Append(f.joblog, <<key, value>>)

\* the statement `x.make(...)` with x None: AttributeError, make is left
Raise(f, line) == [f EXCEPT !.raised = line]

\* molecule_structure = molecule.get_boxed_structure(10, 10, 10); jobs = []; joblog = {}
Begin(c) ==
    [raised |-> 0,
     jobs |-> <<>>,
     joblog |-> <<>>,
     molecule_structure |-> get_boxed_structure(c.molecule, BoxSize, BoxSize, BoxSize),
     molecule_dft_energy |-> None,
     optimized_bulk |-> None,
     slab_structure |-> None,
     adslab_structures |-> None,
     optimized_slab |-> None,
     slab_dft_energy |-> None,
     ads_outputs |-> None,
     output |-> None,
     wrote |-> FALSE]

\* if self.mol_relax_maker: ... jobs += [mol_optimize_job]
MolRelaxStage(c, f) ==
    IF f.raised # 0 \/ ~c.self.mol_relax_maker THEN f
    ELSE LET mol_optimize_job ==
                 MakerJob(NextUuid(f), "molecule relaxation job", "mol_relax_maker",
                          f.molecule_structure, None)
         IN  [f EXCEPT !.jobs = Append(f.jobs, mol_optimize_job),
                       !.joblog = Log(f, "job1: molecule relaxation job",
                                      OutputReference(mol_optimize_job.uuid, "structure"))]

\* mol_static_job = self.mol_static_maker.make(molecule_structure, prev_dir=None)
MolStaticStage(c, f) ==
    IF f.raised # 0 THEN f
    ELSE IF ~c.self.mol_static_maker THEN Raise(f, 143)
    ELSE LET mol_static_job ==
                 MakerJob(NextUuid(f), "molecule static job", "mol_static_maker",
                          f.molecule_structure, None)
             molecule_dft_energy == OutputReference(mol_static_job.uuid, "output.energy")
         IN  [f EXCEPT !.jobs = Append(f.jobs, mol_static_job),
                       !.molecule_dft_energy = molecule_dft_energy,
                       !.joblog = Log(f, "job2: molecule static job", molecule_dft_energy)]

\* BulkRelaxStage with the wrong variable in its else branch
BulkRelaxStage_WrongElse(c, f) ==
    IF f.raised # 0 THEN f
    ELSE IF c.self.bulk_relax_maker
    THEN LET bulk_optimize_job ==
                 MakerJob(NextUuid(f), "bulk relaxation job", "bulk_relax_maker",
                          c.structure, None)
             optimized_bulk == OutputReference(bulk_optimize_job.uuid, "structure")
         IN  [f EXCEPT !.jobs = Append(f.jobs, bulk_optimize_job),
                       !.optimized_bulk = optimized_bulk,
                       !.joblog = Log(f, "job3: bulk relaxation job", optimized_bulk)]
    ELSE [f EXCEPT !.optimized_bulk = f.molecule_structure]

\* if self.bulk_relax_maker: ... optimized_bulk = bulk_optimize_job.output.structure
\* else: optimized_bulk = structure
BulkRelaxStage(c, f) ==
    IF f.raised # 0 THEN f
    ELSE IF c.self.bulk_relax_maker
    THEN LET bulk_optimize_job ==
                 MakerJob(NextUuid(f), "bulk relaxation job", "bulk_relax_maker",
                          c.structure, None)
             optimized_bulk == OutputReference(bulk_optimize_job.uuid, "structure")
         IN  [f EXCEPT !.jobs = Append(f.jobs, bulk_optimize_job),
                       !.optimized_bulk = optimized_bulk,
                       !.joblog = Log(f, "job3: bulk relaxation job", optimized_bulk)]
    ELSE [f EXCEPT !.optimized_bulk = c.structure]

\* GenerateSlabStage with the job created but never added to `jobs`
GenerateSlabStage_NotAppended(c, f) ==
    IF f.raised # 0 THEN f
    ELSE LET generate_slab_structure ==
                 generate_slab(NextUuid(f), f.optimized_bulk, c.min_slab_size,
                               c.surface_idx, c.min_vacuum, c.min_lw)
             slab_structure == OutputReference(generate_slab_structure.uuid, "")
         IN  [f EXCEPT !.slab_structure = slab_structure,
                       !.joblog = Log(f, "job4: generate slab structure", slab_structure)]

\* generate_slab_structure = generate_slab(...); jobs += [generate_slab_structure]
GenerateSlabStage(c, f) ==
    IF f.raised # 0 THEN f
    ELSE LET generate_slab_structure ==
                 generate_slab(NextUuid(f), f.optimized_bulk, c.min_slab_size,
                               c.surface_idx, c.min_vacuum, c.min_lw)
             slab_structure == OutputReference(generate_slab_structure.uuid, "")
         IN  [f EXCEPT !.jobs = Append(f.jobs, generate_slab_structure),
                       !.slab_structure = slab_structure,
                       !.joblog = Log(f, "job4: generate slab structure", slab_structure)]

\* generate_adslabs_structures = generate_adslabs(...); jobs += [...]
GenerateAdslabsStage(c, f) ==
    IF f.raised # 0 THEN f
    ELSE LET generate_adslabs_structures ==
                 generate_adslabs(NextUuid(f), f.optimized_bulk, c.molecule,
                                  c.min_slab_size, c.surface_idx, c.min_vacuum,
                                  c.min_lw)
             adslab_structures == OutputReference(generate_adslabs_structures.uuid, "")
         IN  [f EXCEPT !.jobs = Append(f.jobs, generate_adslabs_structures),
                       !.adslab_structures = adslab_structures,
                       !.joblog = Log(f, "job5: generate adslabs structures",
                                      adslab_structures)]

\* slab_optimize_job = self.slab_relax_maker.make(slab_structure, prev_dir=None)
SlabRelaxStage(c, f) ==
    IF f.raised # 0 THEN f
    ELSE IF ~c.self.slab_relax_maker THEN Raise(f, 192)
    ELSE LET slab_optimize_job ==
                 MakerJob(NextUuid(f), "slab relaxation job", "slab_relax_maker",
                          f.slab_structure, None)
             optimized_slab == OutputReference(slab_optimize_job.uuid, "structure")
         IN  [f EXCEPT !.jobs = Append(f.jobs, slab_optimize_job),
                       !.optimized_slab = optimized_slab,
                       !.joblog = Log(f, "job6: slab relaxation job", optimized_slab)]

\* slab_static_job = self.slab_static_maker.make(optimized_slab, prev_dir=None)
SlabStaticStage(c, f) ==
    IF f.raised # 0 THEN f
    ELSE IF ~c.self.slab_static_maker THEN Raise(f, 201)
    ELSE LET slab_static_job ==
                 MakerJob(NextUuid(f), "slab static job", "slab_static_maker",
                          f.optimized_slab, None)
             slab_dft_energy == OutputReference(slab_static_job.uuid, "output.energy")
         IN  [f EXCEPT !.jobs = Append(f.jobs, slab_static_job),
                       !.slab_dft_energy = slab_dft_energy,
                       !.joblog = Log(f, "job7: slab static job", slab_dft_energy)]

\* run_ads_calculation = run_adslabs_job(...); jobs += [run_ads_calculation]
RunAdslabsStage(c, f) ==
    IF f.raised # 0 THEN f
    ELSE LET run_ads_calculation ==
                 run_adslabs_job(NextUuid(f), f.adslab_structures,
                                 MakerArg(c.self, "slab_relax_maker"),
                                 MakerArg(c.self, "slab_static_maker"))
             ads_outputs == OutputReference(run_ads_calculation.uuid, "")
         IN  [f EXCEPT !.jobs = Append(f.jobs, run_ads_calculation),
                       !.ads_outputs = ads_outputs,
                       !.joblog = Log(f, "job8: run adsorption calculations", ads_outputs)]

\* AdsorptionCalcStage passing the molecule's energy where the slab's belongs
AdsorptionCalcStage_WrongEnergy(c, f) ==
    IF f.raised # 0 THEN f
    ELSE LET adsorption_calc ==
                 adsorption_calculations(NextUuid(f), f.adslab_structures,
                                         f.ads_outputs, f.molecule_dft_energy,
                                         f.molecule_dft_energy)
             output == OutputReference(adsorption_calc.uuid, "")
         IN  [f EXCEPT !.jobs = Append(f.jobs, adsorption_calc),
                       !.output = output,
                       !.joblog = Log(f, "job9: adsorption calculations", output)]

\* adsorption_calc = adsorption_calculations(...); jobs += [adsorption_calc]
AdsorptionCalcStage(c, f) ==
    IF f.raised # 0 THEN f
    ELSE LET adsorption_calc ==
                 adsorption_calculations(NextUuid(f), f.adslab_structures,
                                         f.ads_outputs, f.molecule_dft_energy,
                                         f.slab_dft_energy)
             output == OutputReference(adsorption_calc.uuid, "")
         IN  [f EXCEPT !.jobs = Append(f.jobs, adsorption_calc),
                       !.output = output,
                       !.joblog = Log(f, "job9: adsorption calculations", output)]

\* with open("joblog.json", "w") as f: json.dump(joblog, f, indent=4)
JoblogStage(c, f) ==
    IF f.raised # 0 THEN f ELSE [f EXCEPT !.wrote = TRUE]

\* the body of make, from its first statement to its return or its exception
make(c) ==
    JoblogStage(c,
     AdsorptionCalcStage(c,
      RunAdslabsStage(c,
       SlabStaticStage(c,
        SlabRelaxStage(c,
         GenerateAdslabsStage(c,
          GenerateSlabStage(c,
           BulkRelaxStage(c,
            MolStaticStage(c,
             MolRelaxStage(c, Begin(c)))))))))))

\* Flow(jobs, output=adsorption_calc.output, name=self.name)
Flow(js, output, name) == [jobs |-> js, output |-> output, name |-> name]

NoFlow == Flow(<<>>, None, "")

NoCall == [called |-> FALSE]

----------------------------------------------------------------------------
(* State after construction: AdsorptionMaker(...) with each maker field     *)
(* either a maker (TRUE) or None (FALSE); nothing assembled, nothing run.   *)

AdsorptionMaker(cfg) ==
    [field \in Makers \cup {"name"} |->
        IF field = "name" THEN "adsorption workflow" ELSE cfg[field]]

Init ==
    /\ self \in {AdsorptionMaker(cfg) : cfg \in [Makers -> BOOLEAN]}
    /\ pc = "constructed"
    /\ call = NoCall
    /\ jobs = <<>>
    /\ flow = NoFlow
    /\ files = {}
    /\ running = {}
    /\ done = {}
    /\ spawned = <<>>
    /\ K = -1

\* the arguments of one call of make
Call(molecule, structure, g, prev_dir_mol, prev_dir_bulk) ==
    [called |-> TRUE, self |-> self, molecule |-> molecule, structure |-> structure,
     min_vacuum |-> g.min_vacuum, min_slab_size |-> g.min_slab_size,
     min_lw |-> g.min_lw, surface_idx |-> g.surface_idx,
     prev_dir_mol |-> prev_dir_mol, prev_dir_bulk |-> prev_dir_bulk]

\* open("joblog.json", "w") + json.dump: the file is created or overwritten
WriteFile(fs, name, content) ==
    {x \in fs : x.name # name} \cup {[name |-> name, content |-> content]}

\* AdsorptionMaker.make(molecule, structure, ...): returns a Flow or raises
Make ==
    /\ pc = "constructed"
    /\ \E molecule \in Molecules, structure \in Structures, g \in Geometries,
          prev_dir_mol \in PrevDirsMol, prev_dir_bulk \in PrevDirsBulk :
         LET c == Call(molecule, structure, g, prev_dir_mol, prev_dir_bulk)
             f == make(c)
         IN  /\ call' = c
             /\ jobs' = f.jobs
             /\ pc' = IF f.raised # 0 THEN "raised" ELSE "returned"
             /\ flow' = IF f.raised # 0 THEN NoFlow
                        ELSE Flow(f.jobs, f.output, self.name)
             /\ files' = IF f.wrote THEN WriteFile(files, "joblog.json", f.joblog)
                         ELSE files
    /\ UNCHANGED <<self, running, done, spawned, K>>

----------------------------------------------------------------------------
(* Execution of the returned Flow by the job engine.  A job may start only  *)
(* when every job whose output it consumes has completed.                   *)

\* every job the engine knows: the Flow's, then those created while it runs
AllJobs == flow.jobs \o spawned

Uuids == 1..Len(AllJobs)

JobOf(u) == AllJobs[u]

\* the jobs whose outputs job j takes as arguments
Consumes(j) ==
    {j.args[a].uuid : a \in {b \in DOMAIN j.args : j.args[b].kind = "ref"}}

\* the per-configuration jobs run_adslabs_job creates for k candidates:
\* for each candidate, in index order, a relaxation job and a static job chained to it
AdslabJobs(first, adslab_structures, k) ==
    [i \in 1..(2 * k) |->
        LET config == (i + 1) \div 2
            uuid == first + i - 1
        IN  IF i % 2 = 1
            THEN MakerJob(uuid, "adslab relaxation job", "slab_relax_maker",
                          Val("ref", "", <<config>>, adslab_structures.uuid, "item"),
                          None)
            ELSE MakerJob(uuid, "adslab static job", "slab_static_maker",
                          OutputReference(uuid - 1, "structure"),
                          OutputReference(uuid - 1, "dir_name"))]

\* the output of job u can be read: u has completed and so has every job it
\* was replaced by (run_adslabs_job's output is that of the jobs it created)
Resolved(u) ==
    /\ u \in done
    /\ JobOf(u).fn = "run_adslabs_job" =>
           \A v \in Uuids : v > Len(flow.jobs) => v \in done

CanStart(u) ==
    /\ u \notin running \cup done
    /\ \A d \in Consumes(JobOf(u)) : Resolved(d)

\* the engine starts a job
Start(u) ==
    /\ pc = "returned"
    /\ CanStart(u)
    /\ running' = running \cup {u}
    /\ UNCHANGED <<self, pc, call, jobs, flow, files, done, spawned, K>>

Complete(u) ==
    /\ pc = "returned"
    /\ u \in running
    /\ running' = running \ {u}
    /\ done' = done \cup {u}
    /\ UNCHANGED <<self, pc, call, jobs, flow, files>>

\* a maker's job, generate_slab or adsorption_calculations completes
Finish(u) ==
    /\ Complete(u)
    /\ JobOf(u).fn \notin {"generate_adslabs", "run_adslabs_job"}
    /\ UNCHANGED <<spawned, K>>

\* generate_adslabs completes: it has produced k candidate structures
FinishGenerateAdslabs(u, k) ==
    /\ Complete(u)
    /\ JobOf(u).fn = "generate_adslabs"
    /\ K' = k
    /\ UNCHANGED spawned

\* run_adslabs_job completes: it has created a relax and a static job per candidate
FinishRunAdslabs(u) ==
    /\ Complete(u)
    /\ JobOf(u).fn = "run_adslabs_job"
    /\ spawned' = AdslabJobs(Len(flow.jobs) + 1, JobOf(u).args.adslab_structures, K)
    /\ UNCHANGED K

Next ==
    \/ Make
    \/ \E u \in Uuids : Start(u)
    \/ \E u \in Uuids : Finish(u)
    \/ \E u \in Uuids, k \in 0..MaxK : FinishGenerateAdslabs(u, k)
    \/ \E u \in Uuids : FinishRunAdslabs(u)

Spec == Init /\ [][Next]_vars

----------------------------------------------------------------------------
(* Vocabulary of the properties *)

AllFive == \A m \in Makers : self[m]

Called == pc # "constructed"

Returned == pc = "returned"

\* the jobs of make's list created by maker or function fn
JobsBy(fn) == {jobs[i] : i \in {k \in 1..Len(jobs) : jobs[k].fn = fn}}

\* the jobs of make's list named name
JobsNamed(name) == {jobs[i] : i \in {k \in 1..Len(jobs) : jobs[k].name = name}}

Fns(js) == [i \in 1..Len(js) |-> js[i].fn]

\* the boxed molecule of the call
BoxedMolecule == get_boxed_structure(call.molecule, 10, 10, 10)

\* run_locally's result holds one entry per job that ran, keyed by job uuid
responses == done

\* the run is over: the candidates were generated, the per-configuration jobs
\* created, and every job has completed
RunFinished ==
    /\ Returned
    /\ K >= 0
    /\ \E j \in JobsBy("run_adslabs_job") : j.uuid \in done
    /\ done = Uuids

\* the terminal job of the returned Flow
Terminal == flow.jobs[Len(flow.jobs)]

----------------------------------------------------------------------------
(* C1 *)

\* C1 as stated: with all five makers configured the assembled Flow holds
\* exactly 5 + 2*K jobs, K the number of generated adsorbate-slab candidates.
C1_FlowHasFivePlusTwoK ==
    (Returned /\ AllFive /\ K >= 0) => Len(flow.jobs) = 5 + 2 * K

\* C1 amended: with all five makers configured the assembled Flow holds exactly
\* nine jobs whatever the number of candidates: the five maker stages and the
\* four function jobs generate_slab, generate_adslabs, run_adslabs_job and
\* adsorption_calculations, in creation order; no per-candidate job is in it.
C1_FlowHasNineJobs ==
    (Returned /\ AllFive) =>
        /\ flow.jobs = jobs
        /\ Len(flow.jobs) = 9
        /\ Fns(flow.jobs) =
               <<"mol_relax_maker", "mol_static_maker", "bulk_relax_maker",
                 "generate_slab", "generate_adslabs", "slab_relax_maker",
                 "slab_static_maker", "run_adslabs_job", "adsorption_calculations">>

C1_Witness == Returned /\ AllFive /\ K = 1 /\ Len(flow.jobs) = 9

----------------------------------------------------------------------------
(* C2 *)

\* C2 as stated: with slab_relax_maker None, make raises before any job is
\* created (the job list is empty when the error is raised) and returns no Flow.
C2_RejectsBeforeAnyJob ==
    (Called /\ ~self.slab_relax_maker) =>
        /\ pc = "raised"
        /\ flow = NoFlow
        /\ jobs = <<>>

----------------------------------------------------------------------------
(* C3 *)

\* C3 as stated: with mol_relax_maker configured, the molecule static job takes
\* the relaxation job's optimized structure as its structure and the relaxation
\* job's output directory as its previous directory.
C3_MolStaticConsumesRelax ==
    (Returned /\ self.mol_relax_maker) =>
        \A s \in JobsNamed("molecule static job") :
            \E r \in JobsNamed("molecule relaxation job") :
                /\ s.args.structure = OutputReference(r.uuid, "structure")
                /\ s.args.prev_dir = OutputReference(r.uuid, "dir_name")

----------------------------------------------------------------------------
(* C4 *)

\* C4: a skipped relaxation stage leaves no job and passes its input on
\* unrelaxed: without mol_relax_maker there is no molecule relaxation job and
\* the molecule static job's structure is the boxed molecule; without
\* bulk_relax_maker there is no bulk relaxation job and both generate_slab and
\* generate_adslabs receive the bulk structure argument itself.
C4_SkippedStagesPassThrough ==
    Called =>
        /\ ~self.mol_relax_maker =>
               /\ JobsBy("mol_relax_maker") = {}
               /\ JobsNamed("molecule relaxation job") = {}
               /\ \A s \in JobsNamed("molecule static job") :
                      s.args.structure = BoxedMolecule
        /\ ~self.bulk_relax_maker =>
               /\ JobsBy("bulk_relax_maker") = {}
               /\ JobsNamed("bulk relaxation job") = {}
               /\ \A g \in JobsBy("generate_slab") \cup JobsBy("generate_adslabs") :
                      g.args.bulk_structure = call.structure

C4_Witness ==
    /\ Returned
    /\ ~self.mol_relax_maker
    /\ ~self.bulk_relax_maker
    /\ JobsNamed("molecule static job") # {}
    /\ JobsBy("generate_slab") # {}
    /\ JobsBy("generate_adslabs") # {}

----------------------------------------------------------------------------
(* C5 *)

\* the job names the test expects, position by position
expected_job_names ==
    <<"molecule relaxation job", "molecule static job", "bulk relaxation job",
      "slab relaxation job", "slab static job", "adslabs job",
      "adsorption calculation">>

NamesOf(us) == {JobOf(u).name : u \in us}

\* C5 as stated, read in the way most favourable to it: the jobs of the default
\* flow run in the order of expected_job_names.  Whenever the jobs run so far
\* are exactly the first n expected ones, a job bearing the next
\* expected name is able to run next.
C5_RunsInExpectedOrder ==
    (Returned /\ AllFive) =>
        \A n \in 0..(Len(expected_job_names) - 1) :
            ( /\ running = {}
              /\ Cardinality(done) = n
              /\ NamesOf(done) = {expected_job_names[i] : i \in 1..n} )
            => \E u \in Uuids :
                   /\ CanStart(u)
                   /\ JobOf(u).name = expected_job_names[n + 1]

----------------------------------------------------------------------------
(* C6 *)

\* C6 as stated: running the flow of the default AdsorptionMaker to its end
\* yields exactly 9 responses.
C6_NineResponses ==
    (RunFinished /\ AllFive) => Cardinality(responses) = 9

----------------------------------------------------------------------------
(* C7 *)

\* C7 as stated: make writes no file; the working directory is as it was when
\* the maker was constructed.
C7_AssemblyWritesNoFile ==
    Called => files = {}

----------------------------------------------------------------------------
(* C8 *)

\* C8 as stated: generate_adslabs receives the bulk structure and the geometry
\* parameters generate_slab receives, and as its molecule the structure that
\* came out of the molecule stage (relaxed or boxed), not the raw molecule.
C8_AdslabsInputs ==
    Returned =>
        \A a \in JobsBy("generate_adslabs") :
            /\ \A g \in JobsBy("generate_slab") :
                   /\ a.args.bulk_structure = g.args.bulk_structure
                   /\ a.args.min_slab_size = g.args.min_slab_size
                   /\ a.args.surface_idx = g.args.surface_idx
                   /\ a.args.min_vacuum_size = g.args.min_vacuum_size
                   /\ a.args.min_lw = g.args.min_lw
            /\ a.args.molecule_structure # call.molecule
            /\ a.args.molecule_structure \in
                   {BoxedMolecule} \cup
                   {OutputReference(r.uuid, "structure") : r \in JobsBy("mol_relax_maker")}

----------------------------------------------------------------------------
(* C9 *)

\* the argument named a of job j, None when j has no such argument
Arg(j, a) == IF a \in DOMAIN j.args THEN j.args[a] ELSE None

\* C9 as stated: after a skipped relaxation stage the caller's prev_dir_mol
\* (prev_dir_bulk) is the previous directory of the next stage's job; after a
\* stage that ran, it is the relaxation job's output directory.
C9_PrevDirThreaded ==
    Returned =>
        /\ \A s \in JobsNamed("molecule static job") :
               IF self.mol_relax_maker
               THEN \E r \in JobsBy("mol_relax_maker") :
                        Arg(s, "prev_dir") = OutputReference(r.uuid, "dir_name")
               ELSE Arg(s, "prev_dir") = call.prev_dir_mol
        /\ \A g \in JobsBy("generate_slab") :
               IF self.bulk_relax_maker
               THEN \E r \in JobsBy("bulk_relax_maker") :
                        Arg(g, "prev_dir") = OutputReference(r.uuid, "dir_name")
               ELSE Arg(g, "prev_dir") = call.prev_dir_bulk

----------------------------------------------------------------------------
(* C10 *)

\* C10: under an engine that starts a job only when the jobs it consumes have
\* completed, the terminal adsorption_calculations job starts only after the
\* molecule static job, the slab static job, generate_adslabs, run_adslabs_job
\* and every per-configuration job have completed; the Flow's output is the
\* terminal job's output; and every job of the Flow consumes only outputs of
\* jobs appended before it (the list order is a topological order).
C10_TerminalAfterItsInputs ==
    Returned =>
        /\ Terminal.fn = "adsorption_calculations"
        /\ flow.output = OutputReference(Terminal.uuid, "")
        /\ \A i \in 1..Len(flow.jobs) :
               /\ flow.jobs[i].uuid = i
               /\ \A d \in Consumes(flow.jobs[i]) : d < i
        /\ Terminal.uuid \in running \cup done =>
               /\ \A j \in JobsNamed("molecule static job") \cup
                           JobsNamed("slab static job") \cup
                           JobsBy("generate_adslabs") \cup
                           JobsBy("run_adslabs_job") : j.uuid \in done
               /\ K >= 0
               /\ Len(spawned) = 2 * K
               /\ \A i \in 1..Len(spawned) : spawned[i].uuid \in done

C10_Witness ==
    /\ Returned
    /\ Terminal.uuid \in running
    /\ K = 2
    /\ Len(spawned) = 4

====
